---- MODULE Spec2Model ----
(***************************************************************************)
(* Model of the two checkpoint utilities of jdbertron/glancalyzer:         *)
(*   src/inspect_model.py       inspect_model(model_path)                  *)
(*   src/export_mlp_weights.py  get_model() and export_weights()           *)
(*                                                                         *)
(* One behaviour is one run of one script on one checkpoint file.  A       *)
(* parameter name is the sequence of its dot-separated components          *)
(* ("mlp.6.weight" is <<"mlp","6","weight">>); Python's substring test     *)
(* `s in key` is the search for a contiguous run of components, which      *)
(* agrees with the character-level test on every name drawn here (no       *)
(* component contains another one as a proper substring).  A tensor of a   *)
(* checkpoint is modelled by its shape; the element-level conversion of    *)
(* one tensor (tolist, json.dump, json.load, reshape) is modelled apart,   *)
(* in SpecRoundTrip, on tensors small enough to enumerate.                 *)
(***************************************************************************)
EXTENDS Integers, Sequences, FiniteSets, TLC

VARIABLES
    script,        \* which script runs: "export", "inspect" ("none" in SpecRoundTrip)
    ckpt,          \* the checkpoint file: what os.path.exists / torch.load see
    pc,            \* position in the script
    out,           \* console output, one record per printed line
    exit_code,     \* <<>> while running, <<n>> once the process has ended
    loads,         \* number of torch.load calls made so far
    state_dict,    \* get_model: <<>> or <<the object of the second load>>
    input_size,    \* get_model: <<>> is None, <<n>> is n
    num_classes,   \* get_model: <<>> is None, <<n>> is n
    model,         \* get_model/export_weights: <<>> or <<the object bound to `model`>>
    raised,        \* <<>> or <<the exception that left the script>>
    ret,           \* inspect_model: <<>> or <<its return value>>
    weights,       \* export_weights: the mapping being collected
    out_file,      \* mlp_weights.json: <<>> if not written, <<weights>> if written
    rt             \* SpecRoundTrip: the tensor under conversion and its images

vars == << script, ckpt, pc, out, exit_code, loads, state_dict, input_size,
           num_classes, model, raised, ret, weights, out_file, rt >>

-----------------------------------------------------------------------------
(* Bounds of the model *)

MaxParams == 2     \* a full model has at most this many named parameters
MaxFiller == 11    \* a head mapping has at most this many other entries
MaxRotate == 2     \* the keys of a perceptron mapping are rotated by 0..MaxRotate
MaxDim == 3        \* SpecRoundTrip: each dimension of a tensor is in 0..MaxDim
MaxRank == 2       \* SpecRoundTrip: a tensor has at most this many dimensions

(* Program constants *)

DefaultInputSize == 512    \* MLPHead(input_size=512, ...)
Hidden1 == 256             \* nn.Linear(input_size, 256)
Hidden2 == 128             \* nn.Linear(256, 128)
ShowFirst == 10            \* list(data.keys())[:10]
ExitMissing == 1           \* sys.exit(1)
ExitUncaught == 1          \* the interpreter's status for an uncaught exception
ExitOK == 0                \* the interpreter's status when the script returns

-----------------------------------------------------------------------------
(* Strings and names *)

\* Python's `sub in key` on dotted names, component-wise.
Contains(sub, key) ==
    \E i \in 0..(Len(key) - Len(sub)) : SubSeq(key, i + 1, i + Len(sub)) = sub

K_mlp0w == <<"mlp", "0", "weight">>
K_mlp6w == <<"mlp", "6", "weight">>
K_mlp6b == <<"mlp", "6", "bias">>
K_weight == <<"weight">>
K_bias == <<"bias">>

\* Names of MLPHead's parameters, in registration order (named_parameters order).
MlpKeys ==
    << <<"mlp", "0", "weight">>, <<"mlp", "0", "bias">>,
       <<"mlp", "3", "weight">>, <<"mlp", "3", "bias">>,
       <<"mlp", "6", "weight">>, <<"mlp", "6", "bias">> >>

\* The keys inspect_model looks up, in the order it tries them.
HeadKeys == << <<"classifier", "weight">>, <<"fc", "weight">>, <<"head", "weight">> >>

\* One printed line.  Unused fields hold their empty value.
Line(tag, key, shape, n, msg) ==
    [tag |-> tag, key |-> key, shape |-> shape, n |-> n, msg |-> msg]

L(tag) == Line(tag, <<>>, <<>>, 0, <<>>)

\* Ordered mapping (Python dict): a sequence of [key, shape] with distinct keys.
DictKeys(d) == { d[i].key : i \in 1..Len(d) }
DictHas(d, k) == k \in DictKeys(d)
DictShape(d, k) == d[CHOOSE i \in 1..Len(d) : d[i].key = k].shape

Entry(k, s) == [key |-> k, shape |-> s]

Reverse(s) == [i \in 1..Len(s) |-> s[Len(s) + 1 - i]]

Rotate(s, r) == [i \in 1..Len(s) |-> s[((i - 1 + r) % Len(s)) + 1]]

-----------------------------------------------------------------------------
(* The checkpoint files a run may meet *)

Ckpt(kind, err, cls, entries) ==
    [kind |-> kind, err |-> err, cls |-> cls, entries |-> entries]

\* No file at the path.
MissingFiles == { Ckpt("missing", <<>>, "", <<>>) }

\* A file torch.load cannot deserialize; err is the text of what it raises.
CorruptFiles ==
    { Ckpt("corrupt", <<e>>, "", <<>>) :
        e \in {"invalid load key", "PytorchStreamReader failed reading zip archive"} }

\* A file holding an object that is neither an nn.Module nor a dict.
OtherFiles == { Ckpt("other", <<>>, "list", <<>>) }

\* The parameter lists of at most n entries over the names and shapes given
\* (ModuleFiles keeps those without a repeated name).
RECURSIVE DistinctSeqs(_, _, _)
DistinctSeqs(names, shapes, n) ==
    IF n = 0 THEN { <<>> }
    ELSE LET shorter == DistinctSeqs(names, shapes, n - 1)
         IN  shorter \cup
             { Append(s, Entry(k, sh)) :
                 s \in { x \in shorter : Len(x) = n - 1 },
                 k \in names, sh \in shapes }

NoRepeat(s) == \A i, j \in 1..Len(s) : s[i].key = s[j].key => i = j

\* Names and shapes of the parameters of a pickled full model (any nn.Module).
ParamNames ==
    { <<"mlp", "0", "weight">>, <<"mlp", "0", "bias">>, <<"scale">>, <<"fc", "weight">> }
ParamShapes == { <<>>, <<3>>, <<2, 3>> }

ModuleFiles ==
    { Ckpt("module", <<>>, "Net", ps) :
        ps \in { s \in DistinctSeqs(ParamNames, ParamShapes, MaxParams) : NoRepeat(s) } }

\* A state_dict saved from a perceptron in -> h1 -> h2 -> nc (the last bias of
\* size ncb), with some entries dropped, the order rotated and possibly
\* reversed (every order of up to three keys), and every key possibly
\* prefixed (as nn.DataParallel does with "module.").
MlpShape(i, d) ==
    CASE i = 1 -> <<d.h1, d.in>>
      [] i = 2 -> <<d.h1>>
      [] i = 3 -> <<d.h2, d.h1>>
      [] i = 4 -> <<d.h2>>
      [] i = 5 -> <<d.nc, d.h2>>
      [] i = 6 -> <<d.ncb>>

DimChoices ==
    [in : {0, 3, DefaultInputSize}, h1 : {Hidden1, 64}, h2 : {Hidden2, 64},
     nc : {0, 12}, ncb : {0, 5, 12}]

Prefixes == { <<>>, <<"module">> }

MlpMapping(present, r, rev, pre, d) ==
    LET idx == SelectSeq(<<1, 2, 3, 4, 5, 6>>, LAMBDA i : i \in present)
        rot == Rotate(idx, r)
        ord == IF rev THEN Reverse(rot) ELSE rot
    IN  [j \in 1..Len(ord) |-> Entry(pre \o MlpKeys[ord[j]], MlpShape(ord[j], d))]

MlpFiles ==
    { Ckpt("dict", <<>>, "", MlpMapping(P, r, rev, pre, d)) :
        P \in SUBSET (1..6), r \in 0..MaxRotate, rev \in BOOLEAN,
        pre \in Prefixes, d \in DimChoices }

\* A state_dict of some other network: m entries of a feature stack, and any
\* of the conventional head keys, before or after them, in either order.
HeadClasses(i) == <<7, 9, 11>>[i]

FillerKey(i) == <<"features", ToString(i), "weight">>

HeadMapping(H, m, headsFirst, rev) ==
    LET idx == SelectSeq(<<1, 2, 3>>, LAMBDA i : i \in H)
        ord == IF rev THEN Reverse(idx) ELSE idx
        heads == [j \in 1..Len(ord) |-> Entry(HeadKeys[ord[j]], <<HeadClasses(ord[j]), 64>>)]
        fill == [j \in 1..m |-> Entry(FillerKey(j), <<64, 64>>)]
    IN  IF headsFirst THEN heads \o fill ELSE fill \o heads

HeadFiles ==
    { Ckpt("dict", <<>>, "", HeadMapping(H, m, hf, rev)) :
        H \in SUBSET (1..3), m \in 0..MaxFiller, hf \in BOOLEAN, rev \in BOOLEAN }

Checkpoints ==
    MissingFiles \cup CorruptFiles \cup OtherFiles \cup ModuleFiles
        \cup MlpFiles \cup HeadFiles

-----------------------------------------------------------------------------
(* get_model: the shape heuristic and the reconstruction *)

None == <<>>
Some(x) == <<x>>

\* Python truthiness of an int-or-None: None and 0 are false.
Truthy(opt) == opt # None /\ opt[1] # 0

\* One iteration of the loop over state_dict.keys(): shape[0] is s[1], shape[1] is s[2].
ScanKey(acc, e) ==
    LET nc == IF Contains(K_mlp6w, e.key) \/ Contains(K_mlp6b, e.key)
              THEN IF Contains(K_weight, e.key) THEN Some(e.shape[1])
                   ELSE IF Contains(K_bias, e.key) /\ acc.num_classes = None
                        THEN Some(e.shape[1])
                        ELSE acc.num_classes
              ELSE acc.num_classes
        in == IF Contains(K_mlp0w, e.key) THEN Some(e.shape[2]) ELSE acc.input_size
    IN  [input_size |-> in, num_classes |-> nc]

RECURSIVE ScanKeys(_, _)
ScanKeys(entries, acc) ==
    IF entries = <<>> THEN acc
    ELSE ScanKeys(Tail(entries), ScanKey(acc, Head(entries)))

InferDims(sd) == ScanKeys(sd, [input_size |-> None, num_classes |-> None])

\* Variant: MLPHead's own defaults are used when nothing was inferred.
ChooseArchDefaults(in, nc) ==
    IF Truthy(in) /\ Truthy(nc)
    THEN Some([input_size |-> in[1], num_classes |-> nc[1]])
    ELSE Some([input_size |-> DefaultInputSize,
               num_classes |-> IF Truthy(nc) THEN nc[1] ELSE 12])

\* The arguments MLPHead is built with, None when the ValueError is raised.
ChooseArch(in, nc) ==
    IF Truthy(in) /\ Truthy(nc)
    THEN Some([input_size |-> in[1], num_classes |-> nc[1]])
    ELSE IF Truthy(nc)
         THEN Some([input_size |-> DefaultInputSize, num_classes |-> nc[1]])
         ELSE None

\* The named parameters of MLPHead(input_size, num_classes), in order.
MLPHead(a) ==
    Ckpt("module", <<>>, "MLPHead",
         << Entry(MlpKeys[1], <<Hidden1, a.input_size>>),
            Entry(MlpKeys[2], <<Hidden1>>),
            Entry(MlpKeys[3], <<Hidden2, Hidden1>>),
            Entry(MlpKeys[4], <<Hidden2>>),
            Entry(MlpKeys[5], <<a.num_classes, Hidden2>>),
            Entry(MlpKeys[6], <<a.num_classes>>) >>)

\* Variant: load_state_dict(state_dict, strict=False), which tolerates missing
\* and unexpected keys.
LoadStateDictLax(m, sd) ==
    \A k \in DictKeys(sd) \cap DictKeys(m.entries) :
        DictShape(sd, k) = DictShape(m.entries, k)

\* nn.Module.load_state_dict(state_dict), strict: no missing key, no
\* unexpected key, no size mismatch.
LoadStateDictOK(m, sd) ==
    /\ DictKeys(sd) = DictKeys(m.entries)
    /\ \A k \in DictKeys(sd) : DictShape(sd, k) = DictShape(m.entries, k)

Exc(type, msg) == [type |-> type, msg |-> msg]

\* Variant: the wrapping error drops the text of its cause.
WrapDropsCause(e) == Exc("RuntimeError", <<"Could not load model: ">>)

\* except Exception as e: raise RuntimeError(f"Could not load model: {e}")
WrapCouldNotLoad(e) == Exc("RuntimeError", <<"Could not load model: ">> \o e.msg)

LoadError == Exc("UnpicklingError", ckpt.err)
NoKeysError == Exc("AttributeError", <<"object has no attribute 'keys'">>)
InferError == Exc("ValueError", <<"Could not infer model architecture from state_dict">>)
StateDictError == Exc("RuntimeError", <<"Error(s) in loading state_dict for MLPHead">>)

-----------------------------------------------------------------------------
(* export_weights *)

\* weights[name] = value on a Python dict: replace in place, or append.
DictPut(d, k, s) ==
    IF DictHas(d, k)
    THEN [i \in 1..Len(d) |-> IF d[i].key = k THEN Entry(k, s) ELSE d[i]]
    ELSE Append(d, Entry(k, s))

\* Variant: only the weights are exported.
ExportedWeightOnly(name) == Contains(K_weight, name)

\* if 'weight' in name or 'bias' in name
Exported(name) == Contains(K_weight, name) \/ Contains(K_bias, name)

\* The loop over model.named_parameters().
RECURSIVE CollectWeights(_, _)
CollectWeights(params, w) ==
    IF params = <<>> THEN w
    ELSE LET p == Head(params)
         IN  CollectWeights(Tail(params),
                            IF Exported(p.key) THEN DictPut(w, p.key, p.shape) ELSE w)

RECURSIVE ExportLines(_)
ExportLines(params) ==
    IF params = <<>> THEN <<>>
    ELSE LET p == Head(params)
         IN  (IF Exported(p.key) THEN << Line("exported", p.key, p.shape, 0, <<>>) >>
              ELSE <<>>) \o ExportLines(Tail(params))

-----------------------------------------------------------------------------
(* Control flow shared by the actions *)

Emit(lines) == out' = out \o lines

\* An exception leaves the script: traceback on the console, status 1.
Uncaught(e) ==
    /\ raised' = Some(e)
    /\ pc' = "raised"
    /\ exit_code' = Some(ExitUncaught)

\* if not os.path.exists(model_path): print(...); sys.exit(1)
NotFound ==
    /\ Emit(<< L("not_found") >>)
    /\ pc' = "exited"
    /\ exit_code' = Some(ExitMissing)

\* Variant: the existence check passes for every path.
ExistsAlways == TRUE

Exists == ckpt.kind # "missing"

\* Variant: whatever the first load yields is taken for a model.
IsModuleAny(obj) == TRUE

\* isinstance(obj, torch.nn.Module)
IsModule(obj) == obj.kind = "module"

-----------------------------------------------------------------------------
(* export_mlp_weights.py *)

\* export_weights, lines 80-85.
export_weights_start ==
    /\ script = "export" /\ pc = "start"
    /\ IF Exists
       THEN /\ Emit(<< L("loading_model") >>)
            /\ pc' = "gm_try1"
            /\ UNCHANGED exit_code
       ELSE NotFound
    /\ UNCHANGED << script, ckpt, loads, state_dict, input_size, num_classes,
                    model, raised, ret, weights, out_file, rt >>

\* get_model, lines 25-33: the first torch.load.
get_model_load_full ==
    /\ pc = "gm_try1"
    /\ loads' = loads + 1
    /\ IF ckpt.kind = "corrupt"
       THEN /\ Emit(<< L("attempting"),
                        Line("could_not_load_full", <<>>, <<>>, 0, LoadError.msg),
                        L("trying_state_dict") >>)
            /\ pc' = "gm_try2"
            /\ UNCHANGED model
       ELSE /\ model' = Some(ckpt)
            /\ IF IsModule(ckpt)
               THEN /\ Emit(<< L("attempting"), L("loaded_full") >>)
                    /\ pc' = "ex_collect"
               ELSE /\ Emit(<< L("attempting") >>)
                    /\ pc' = "gm_try2"
    /\ UNCHANGED << script, ckpt, exit_code, state_dict, input_size, num_classes,
                    raised, ret, weights, out_file, rt >>

\* get_model, lines 35-48: the second torch.load and the scan of the keys.
get_model_load_state_dict ==
    /\ pc = "gm_try2"
    /\ loads' = loads + 1
    /\ IF ckpt.kind = "corrupt"
       THEN /\ Uncaught(WrapCouldNotLoad(LoadError))
            /\ Emit(<< Line("traceback", <<>>, <<>>, 0, WrapCouldNotLoad(LoadError).msg) >>)
            /\ UNCHANGED << state_dict, input_size, num_classes >>
       ELSE /\ state_dict' = Some(ckpt)
            /\ IF ckpt.kind = "dict"
               THEN LET d == InferDims(ckpt.entries)
                    IN  /\ input_size' = d.input_size
                        /\ num_classes' = d.num_classes
                        /\ Emit(<< L("reconstructing"),
                                    Line("inferred_input_size", <<>>, d.input_size, 0, <<>>),
                                    Line("inferred_num_classes", <<>>, d.num_classes, 0, <<>>) >>)
                        /\ pc' = "gm_build"
                        /\ UNCHANGED << raised, exit_code >>
               ELSE /\ Uncaught(WrapCouldNotLoad(NoKeysError))
                    /\ Emit(<< L("reconstructing"),
                                Line("traceback", <<>>, <<>>, 0,
                                     WrapCouldNotLoad(NoKeysError).msg) >>)
                    /\ UNCHANGED << input_size, num_classes >>
    /\ UNCHANGED << script, ckpt, model, ret, weights, out_file, rt >>

\* get_model, lines 65-70: build MLPHead, or raise the ValueError.
get_model_build ==
    /\ pc = "gm_build"
    /\ LET a == ChooseArch(input_size, num_classes)
       IN  IF a # None
           THEN /\ model' = Some(MLPHead(a[1]))
                /\ pc' = "gm_load"
                /\ UNCHANGED << out, raised, exit_code >>
           ELSE /\ Uncaught(WrapCouldNotLoad(InferError))
                /\ Emit(<< Line("traceback", <<>>, <<>>, 0,
                                 WrapCouldNotLoad(InferError).msg) >>)
                /\ UNCHANGED model
    /\ UNCHANGED << script, ckpt, loads, state_dict, input_size, num_classes,
                    ret, weights, out_file, rt >>

\* get_model, lines 72-76: load_state_dict, then return the model.
get_model_strict_load ==
    /\ pc = "gm_load"
    /\ IF LoadStateDictOK(model[1], state_dict[1].entries)
       THEN /\ Emit(<< L("loaded_state_dict") >>)
            /\ pc' = "ex_collect"
            /\ UNCHANGED << raised, exit_code >>
       ELSE /\ Uncaught(WrapCouldNotLoad(StateDictError))
            /\ Emit(<< Line("traceback", <<>>, <<>>, 0,
                             WrapCouldNotLoad(StateDictError).msg) >>)
    /\ UNCHANGED << script, ckpt, loads, state_dict, input_size, num_classes,
                    model, ret, weights, out_file, rt >>

\* export_weights, lines 86-103: model.eval() and the loop over the parameters.
export_weights_collect ==
    /\ pc = "ex_collect"
    /\ weights' = CollectWeights(model[1].entries, <<>>)
    /\ Emit(ExportLines(model[1].entries))
    /\ pc' = "ex_write"
    /\ UNCHANGED << script, ckpt, exit_code, loads, state_dict, input_size,
                    num_classes, model, raised, ret, out_file, rt >>

\* export_weights, lines 106-119: json.dump and the closing lines.
export_weights_write ==
    /\ pc = "ex_write"
    /\ out_file' = Some(weights)
    /\ Emit(<< L("exported_to"), L("architecture"), L("next_steps") >>)
    /\ pc' = "done"
    /\ exit_code' = Some(ExitOK)
    /\ UNCHANGED << script, ckpt, loads, state_dict, input_size, num_classes,
                    model, raised, ret, weights, rt >>

-----------------------------------------------------------------------------
(* inspect_model.py *)

Take(s, n) == SubSeq(s, 1, IF Len(s) < n THEN Len(s) ELSE n)

\* for key in list(data.keys())[:10]: print(key, data[key].shape)
LayerLines(d) ==
    LET first == Take(d, ShowFirst)
    IN  [i \in 1..Len(first) |-> Line("layer", first[i].key, first[i].shape, 0, <<>>)]

\* Variant: the "more" line is printed from ten entries on.
MoreLinesFromTen(d) ==
    IF Len(d) >= ShowFirst THEN << Line("more", <<>>, <<>>, Len(d) - ShowFirst, <<>>) >>
    ELSE <<>>

\* if len(data) > 10: print(... and {len(data) - 10} more layers)
MoreLines(d) ==
    IF Len(d) > ShowFirst THEN << Line("more", <<>>, <<>>, Len(d) - ShowFirst, <<>>) >>
    ELSE <<>>

\* The loop over ['classifier.weight', 'fc.weight', 'head.weight'] with its break.
RECURSIVE FirstHead(_, _)
FirstHead(d, keys) ==
    IF keys = <<>> THEN <<>>
    ELSE IF DictHas(d, Head(keys))
         THEN << Line("inferred_num_classes", Head(keys), <<>>,
                      DictShape(d, Head(keys))[1], <<>>) >>
         ELSE FirstHead(d, Tail(keys))

InferredLines(d) ==
    IF \E i \in 1..Len(HeadKeys) : DictHas(d, HeadKeys[i])
    THEN FirstHead(d, HeadKeys)
    ELSE <<>>

\* inspect_model, lines 14-18.
inspect_model_start ==
    /\ script = "inspect" /\ pc = "start"
    /\ IF Exists
       THEN /\ Emit(<< L("inspecting") >>)
            /\ pc' = "ins_load"
            /\ UNCHANGED exit_code
       ELSE NotFound
    /\ UNCHANGED << script, ckpt, loads, state_dict, input_size, num_classes,
                    model, raised, ret, weights, out_file, rt >>

\* inspect_model, lines 20-25 and 60-64: torch.load and the type line.
inspect_model_load ==
    /\ pc = "ins_load"
    /\ loads' = loads + 1
    /\ IF ckpt.kind = "corrupt"
       THEN /\ Emit(<< Line("error_loading", <<>>, <<>>, 0, LoadError.msg),
                       Line("traceback", <<>>, <<>>, 0, LoadError.msg) >>)
            /\ ret' = Some(FALSE)
            /\ pc' = "done"
            /\ exit_code' = Some(ExitOK)
       ELSE /\ Emit(<< Line("type", <<ckpt.kind>>, <<>>, 0, <<>>) >>)
            /\ pc' = "ins_report"
            /\ UNCHANGED << ret, exit_code >>
    /\ UNCHANGED << script, ckpt, state_dict, input_size, num_classes,
                    model, raised, weights, out_file, rt >>

\* inspect_model, lines 27-58: the report for the kind of object loaded.
inspect_model_report ==
    /\ pc = "ins_report"
    /\ CASE IsModule(ckpt) ->
              /\ Emit(<< L("full_model"),
                         Line("model_class", <<ckpt.cls>>, <<>>, 0, <<>>),
                         L("model_repr"), L("load_directly") >>)
              /\ ret' = Some(TRUE)
         [] ckpt.kind = "dict" ->
              /\ Emit(<< L("is_state_dict"),
                         Line("number_of_layers", <<>>, <<>>, Len(ckpt.entries), <<>>),
                         L("layer_names") >>
                      \o LayerLines(ckpt.entries)
                      \o MoreLines(ckpt.entries)
                      \o InferredLines(ckpt.entries)
                      \o << L("need_architecture"), L("update_convert") >>)
              /\ ret' = Some(FALSE)
         [] OTHER ->
              /\ Emit(<< Line("unknown_format", <<ckpt.cls>>, <<>>, 0, <<>>),
                         L("content") >>)
              /\ ret' = Some(FALSE)
    /\ pc' = "done"
    /\ exit_code' = Some(ExitOK)
    /\ UNCHANGED << script, ckpt, loads, state_dict, input_size, num_classes,
                    model, raised, weights, out_file, rt >>

-----------------------------------------------------------------------------
(* The conversion of one parameter: tensor -> nested list -> JSON -> tensor *)

\* A tensor with its elements: contiguous row-major storage.
Tensor(shape, data) == [shape |-> shape, data |-> data]

RECURSIVE Numel(_)
Numel(shape) == IF shape = <<>> THEN 1 ELSE Head(shape) * Numel(Tail(shape))

\* A JSON / Python value: a number or a list of values.
Num(v) == [k |-> "num", v |-> v, items |-> <<>>]
List(items) == [k |-> "list", v |-> 0, items |-> items]

\* Variant: the elements are nested in column-major order.
RECURSIVE NestColumnMajor(_, _)
NestColumnMajor(data, shape) ==
    IF shape = <<>> THEN Num(data[1])
    ELSE LET n == Head(shape)
         IN  List([i \in 1..n |->
                     NestColumnMajor(
                         [j \in 1..Numel(Tail(shape)) |-> data[(j - 1) * n + i]],
                         Tail(shape))])

\* ndarray.tolist(): a scalar for rank 0, else one nested list per leading index.
RECURSIVE Nest(_, _)
Nest(data, shape) ==
    IF shape = <<>> THEN Num(data[1])
    ELSE LET step == Numel(Tail(shape))
         IN  List([i \in 1..Head(shape) |->
                     Nest(SubSeq(data, (i - 1) * step + 1, i * step), Tail(shape))])

\* lines 98-102: {'data': param...tolist(), 'shape': list(param.shape)}
ToEntry(t) == [data |-> Nest(t.data, t.shape), shape |-> t.shape]

\* json.dump: the text as a sequence of tokens.
Tok(t, v) == [t |-> t, v |-> v]

RECURSIVE DumpValue(_)
RECURSIVE DumpItems(_)
DumpValue(x) ==
    IF x.k = "num" THEN << Tok("num", x.v) >>
    ELSE << Tok("[", 0) >> \o DumpItems(x.items) \o << Tok("]", 0) >>
DumpItems(items) ==
    IF items = <<>> THEN <<>>
    ELSE IF Len(items) = 1 THEN DumpValue(items[1])
    ELSE DumpValue(items[1]) \o << Tok(",", 0) >> \o DumpItems(Tail(items))

ShapeValue(shape) == List([i \in 1..Len(shape) |-> Num(shape[i])])

\* line 108: json.dump of one entry, "data" first, then "shape".
DumpEntry(e) ==
    << Tok("{", 0), Tok("data", 0), Tok(":", 0) >> \o DumpValue(e.data)
        \o << Tok(",", 0), Tok("shape", 0), Tok(":", 0) >> \o DumpValue(ShapeValue(e.shape))
        \o << Tok("}", 0) >>

\* json.load: recursive descent over the tokens.
RECURSIVE ParseValue(_)
RECURSIVE ParseItems(_, _)
ParseValue(toks) ==
    IF Head(toks).t = "num"
    THEN [val |-> Num(Head(toks).v), rest |-> Tail(toks)]
    ELSE ParseItems(Tail(toks), <<>>)
ParseItems(toks, acc) ==
    IF Head(toks).t = "]" THEN [val |-> List(acc), rest |-> Tail(toks)]
    ELSE IF Head(toks).t = "," THEN ParseItems(Tail(toks), acc)
    ELSE LET r == ParseValue(toks)
         IN  ParseItems(r.rest, Append(acc, r.val))

ParseEntry(toks) ==
    LET d == ParseValue(SubSeq(toks, 4, Len(toks)))
        s == ParseValue(SubSeq(d.rest, 4, Len(d.rest)))
    IN  [data |-> d.val,
         shape |-> [i \in 1..Len(s.val.items) |-> s.val.items[i].v]]

\* The reader's reshape: the elements in row-major order, under the shape.
RECURSIVE Flatten(_)
RECURSIVE FlattenItems(_)
Flatten(x) == IF x.k = "num" THEN << x.v >> ELSE FlattenItems(x.items)
FlattenItems(items) ==
    IF items = <<>> THEN <<>> ELSE Flatten(Head(items)) \o FlattenItems(Tail(items))

Reshape(e) == Tensor(e.shape, Flatten(e.data))

\* The tensors drawn: every shape of rank <= MaxRank over 0..MaxDim, the
\* elements pairwise distinct (base, base+1, ...).
RtShapes == UNION { [1..r -> 0..MaxDim] : r \in 0..MaxRank }

RtTensors ==
    { Tensor(sh, [i \in 1..Numel(sh) |-> base + i]) : sh \in RtShapes, base \in {-3, 0, 7} }

RtToList ==
    /\ rt.pc = "tensor"
    /\ rt' = [rt EXCEPT !.pc = "entry", !.entry = Some(ToEntry(rt.tensor))]
    /\ UNCHANGED << script, ckpt, pc, out, exit_code, loads, state_dict, input_size,
                    num_classes, model, raised, ret, weights, out_file >>

RtDump ==
    /\ rt.pc = "entry"
    /\ rt' = [rt EXCEPT !.pc = "text", !.text = DumpEntry(rt.entry[1])]
    /\ UNCHANGED << script, ckpt, pc, out, exit_code, loads, state_dict, input_size,
                    num_classes, model, raised, ret, weights, out_file >>

RtLoad ==
    /\ rt.pc = "text"
    /\ rt' = [rt EXCEPT !.pc = "read", !.read = Some(ParseEntry(rt.text))]
    /\ UNCHANGED << script, ckpt, pc, out, exit_code, loads, state_dict, input_size,
                    num_classes, model, raised, ret, weights, out_file >>

RtReshape ==
    /\ rt.pc = "read"
    /\ rt' = [rt EXCEPT !.pc = "back", !.back = Some(Reshape(rt.read[1]))]
    /\ UNCHANGED << script, ckpt, pc, out, exit_code, loads, state_dict, input_size,
                    num_classes, model, raised, ret, weights, out_file >>

RtInit ==
    /\ script = "none"
    /\ ckpt \in MissingFiles
    /\ pc = "idle"
    /\ out = <<>>
    /\ exit_code = None
    /\ loads = 0
    /\ state_dict = None
    /\ input_size = None
    /\ num_classes = None
    /\ model = None
    /\ raised = None
    /\ ret = None
    /\ weights = <<>>
    /\ out_file = None
    /\ \E t \in RtTensors :
         rt = [pc |-> "tensor", tensor |-> t, entry |-> None, text |-> <<>>,
               read |-> None, back |-> None]

RtNext == RtToList \/ RtDump \/ RtLoad \/ RtReshape

SpecRoundTrip == RtInit /\ [][RtNext]_vars

-----------------------------------------------------------------------------
(* One run of one script on one checkpoint *)

RtIdle ==
    [pc |-> "idle", tensor |-> Tensor(<<>>, <<0>>), entry |-> None, text |-> <<>>,
     read |-> None, back |-> None]

Init ==
    /\ script \in {"export", "inspect"}
    /\ ckpt \in Checkpoints
    /\ pc = "start"
    /\ out = <<>>
    /\ exit_code = None
    /\ loads = 0
    /\ state_dict = None
    /\ input_size = None
    /\ num_classes = None
    /\ model = None
    /\ raised = None
    /\ ret = None
    /\ weights = <<>>
    /\ out_file = None
    /\ rt = RtIdle

Next ==
    \/ export_weights_start
    \/ get_model_load_full
    \/ get_model_load_state_dict
    \/ get_model_build
    \/ get_model_strict_load
    \/ export_weights_collect
    \/ export_weights_write
    \/ inspect_model_start
    \/ inspect_model_load
    \/ inspect_model_report

Spec == Init /\ [][Next]_vars

-----------------------------------------------------------------------------
(* Vocabulary of the properties *)

Exporting == script = "export"
Inspecting == script = "inspect"

\* get_model has returned to export_weights.
Returned == pc \in {"ex_collect", "ex_write", "done"}

\* The second load yielded a mapping and lines 65-70 have run.
AfterBuild ==
    /\ Exporting /\ ckpt.kind = "dict"
    /\ pc \in {"gm_load", "ex_collect", "ex_write", "done", "raised"}

HasKeyWith(sd, sub) == \E i \in 1..Len(sd) : Contains(sub, sd[i].key)
EntryWith(sd, sub) == sd[CHOOSE i \in 1..Len(sd) : Contains(sub, sd[i].key)]

HasFirst(sd) == HasKeyWith(sd, K_mlp0w)
HasLast(sd) == HasKeyWith(sd, K_mlp6w) \/ HasKeyWith(sd, K_mlp6b)

\* The sizes the mapping states: shape[1] of the first weight; shape[0] of the
\* last weight, or of the last bias when there is no last weight.
StatedInput(sd) == EntryWith(sd, K_mlp0w).shape[2]
StatedClasses(sd) ==
    IF HasKeyWith(sd, K_mlp6w) THEN EntryWith(sd, K_mlp6w).shape[1]
    ELSE EntryWith(sd, K_mlp6b).shape[1]

\* The model bound to `model` is an MLPHead built for input size i, n classes.
BuiltAs(i, n) ==
    /\ model # None
    /\ model[1].kind = "module" /\ model[1].cls = "MLPHead"
    /\ model[1].entries[1].shape = <<Hidden1, i>>
    /\ model[1].entries[5].shape = <<n, Hidden2>>
    /\ model[1].entries[6].shape = <<n>>

Printed(tag) == SelectSeq(out, LAMBDA l : l.tag = tag)

-----------------------------------------------------------------------------
(* C1 *)

\* C1: with no file at the checkpoint path, either script prints the
\* "not found" line as its first (and only) output, ends with status 1, never
\* calls torch.load and never writes mlp_weights.json.
C1_MissingFile ==
    ckpt.kind = "missing" /\ script \in {"export", "inspect"} =>
        /\ loads = 0
        /\ out_file = None
        /\ pc \in {"start", "exited"}
        /\ pc = "start" => out = <<>> /\ exit_code = None
        /\ pc = "exited" => /\ out # <<>>
                            /\ out[1] = L("not_found")
                            /\ exit_code = Some(1)

C1_Witness == ckpt.kind = "missing" /\ Exporting /\ pc = "exited"

-----------------------------------------------------------------------------
(* C2 *)

\* C2: for a mapping with a first-layer weight key and a last-layer weight or
\* bias key, in any key order, the perceptron get_model builds has the input
\* size shape[1] of the first weight and the class count shape[0] of the last
\* weight (of the last bias when there is no last weight).
C2_SizesFromFirstAndLast ==
    AfterBuild /\ HasFirst(ckpt.entries) /\ HasLast(ckpt.entries) =>
        BuiltAs(StatedInput(ckpt.entries), StatedClasses(ckpt.entries))

\* C2, where both stated sizes are nonzero: the sizes are the stated ones.
C2_SizesWhenNonzero ==
    /\ AfterBuild /\ HasFirst(ckpt.entries) /\ HasLast(ckpt.entries)
    /\ StatedInput(ckpt.entries) # 0 /\ StatedClasses(ckpt.entries) # 0
    => BuiltAs(StatedInput(ckpt.entries), StatedClasses(ckpt.entries))

-----------------------------------------------------------------------------
(* C3 *)

\* C3: for a mapping with a last-layer weight or bias key and no first-layer
\* weight key, get_model builds the perceptron with input size 512 and the
\* stated class count, and does not raise the "could not infer" error.
C3_DefaultInput ==
    AfterBuild /\ ~HasFirst(ckpt.entries) /\ HasLast(ckpt.entries) =>
        /\ BuiltAs(512, StatedClasses(ckpt.entries))
        /\ raised # Some(WrapCouldNotLoad(InferError))

\* C3, where the stated class count is nonzero: input size 512 is used.
C3_DefaultInputWhenNonzero ==
    /\ AfterBuild /\ ~HasFirst(ckpt.entries) /\ HasLast(ckpt.entries)
    /\ StatedClasses(ckpt.entries) # 0
    => /\ BuiltAs(512, StatedClasses(ckpt.entries))
       /\ raised # Some(WrapCouldNotLoad(InferError))

-----------------------------------------------------------------------------
(* C4 *)

\* C4: for a mapping with neither a first-layer weight key nor a last-layer
\* key, get_model never returns: lines 65-70 raise the error that names the
\* cause, and no output file is written.
C4_NothingInferred ==
    Exporting /\ ckpt.kind = "dict" /\ ~HasFirst(ckpt.entries) /\ ~HasLast(ckpt.entries) =>
        /\ ~Returned /\ pc # "gm_load"
        /\ out_file = None
        /\ pc = "raised" =>
             /\ raised # None
             /\ raised[1].type = "RuntimeError"
             /\ Contains(<<"Could not infer model architecture from state_dict">>,
                         raised[1].msg)

C4_Witness ==
    /\ Exporting /\ ckpt.kind = "dict" /\ pc = "raised"
    /\ Len(ckpt.entries) > 1
    /\ ~HasFirst(ckpt.entries) /\ ~HasLast(ckpt.entries)

-----------------------------------------------------------------------------
(* C5 *)

\* The names of the model's parameters that contain 'weight' or 'bias'.
WeightOrBias(m) ==
    { m.entries[i].key : i \in { j \in 1..Len(m.entries) :
        Contains(<<"weight">>, m.entries[j].key) \/ Contains(<<"bias">>, m.entries[j].key) } }

\* C5: once the loop over named_parameters has run, the collected mapping
\* (and the file, once written) has exactly one entry per parameter whose name
\* contains 'weight' or 'bias', none for any other parameter, each under the
\* parameter's full name and with the parameter's shape.
C5_OneEntryPerWeightOrBias ==
    Exporting /\ pc \in {"ex_write", "done"} =>
        /\ DictKeys(weights) = WeightOrBias(model[1])
        /\ Len(weights) = Cardinality(WeightOrBias(model[1]))
        /\ \A k \in DictKeys(weights) : DictShape(weights, k) = DictShape(model[1].entries, k)
        /\ pc = "done" => out_file = Some(weights)

C5_Witness ==
    /\ Exporting /\ pc = "done"
    /\ \E i, j \in 1..Len(model[1].entries) :
         /\ model[1].entries[i].key = <<"scale">>
         /\ model[1].entries[j].key = <<"mlp", "0", "bias">>

-----------------------------------------------------------------------------
(* C6 *)

\* C6: get_model returns the object of the first load as it is when that is a
\* model instance (one load, no reconstruction); otherwise the file is loaded
\* a second time and read as a mapping; and whatever get_model returns is a
\* model instance.
C6_ReturnsModelOrRaises ==
    Exporting =>
        /\ Returned => model # None /\ model[1].kind = "module"
        /\ Returned /\ ckpt.kind = "module" =>
             model = Some(ckpt) /\ loads = 1 /\ state_dict = None
        /\ Returned /\ ckpt.kind # "module" =>
             loads = 2 /\ state_dict = Some(ckpt) /\ ckpt.kind = "dict"
        /\ ckpt.kind \in {"corrupt", "dict", "other"}
             /\ pc \notin {"start", "gm_try1", "gm_try2"} => loads = 2
        /\ exit_code # None => pc \in {"exited", "raised", "done"}

C6_Witness ==
    /\ Exporting /\ pc = "ex_collect"
    /\ state_dict # None /\ loads = 2 /\ model[1].cls = "MLPHead"

-----------------------------------------------------------------------------
(* C7 *)

\* C7: with a file that cannot be deserialized, the exporter prints the first
\* failure, loads a second time, and only then lets a RuntimeError out whose
\* message carries the text of the underlying error; the run ends with no
\* output file, and the first failure is on the console.
C7_BothLoadsFail ==
    Exporting /\ ckpt.kind = "corrupt" =>
        /\ out_file = None
        /\ ~Returned
        /\ loads < 2 => raised = None /\ exit_code = None
        /\ loads >= 1 =>
             Line("could_not_load_full", <<>>, <<>>, 0, ckpt.err) \in
                 { out[i] : i \in 1..Len(out) }
        /\ pc = "raised" =>
             /\ loads = 2
             /\ raised # None
             /\ raised[1].type = "RuntimeError"
             /\ raised[1].msg = <<"Could not load model: ">> \o ckpt.err
             /\ exit_code = Some(1)
        /\ exit_code # None => pc = "raised"

C7_Witness == Exporting /\ ckpt.kind = "corrupt" /\ pc = "raised"

-----------------------------------------------------------------------------
(* C8 *)

\* A nested list with the nesting dimensions of a shape.
RECURSIVE WellNested(_, _)
WellNested(x, shape) ==
    IF shape = <<>> THEN x.k = "num"
    ELSE /\ x.k = "list"
         /\ Len(x.items) = Head(shape)
         /\ \A i \in 1..Len(x.items) : WellNested(x.items[i], Tail(shape))

\* Element [i][j] of a rank-2 tensor, zero-based as in the source.
At2(t, i, j) == t.data[i * t.shape[2] + j + 1]

-----------------------------------------------------------------------------
(* C9 *)

Min(a, b) == IF a < b THEN a ELSE b

\* The head keys the mapping holds, as positions in the fixed order.
HeadsPresent(d) == { i \in 1..Len(HeadKeys) : DictHas(d, HeadKeys[i]) }

FirstHeadPresent(d) ==
    CHOOSE i \in HeadsPresent(d) : \A j \in HeadsPresent(d) : i <= j

\* C9: for a mapping of n entries inspect_model prints the count n, one line
\* for each of the first min(n, 10) entries in mapping order with its shape, a
\* "... and n-10 more" line exactly when n > 10, and at most one inferred class
\* count: exactly when a head key is present, from the first one present in
\* the order classifier.weight, fc.weight, head.weight.  It returns True
\* exactly for a model instance, and writes no file.
C9_InspectReport ==
    Inspecting =>
        /\ out_file = None
        /\ pc = "done" => ret # None /\ (ret[1] <=> ckpt.kind = "module")
        /\ pc = "done" /\ ckpt.kind = "dict" =>
             LET d == ckpt.entries
                 n == Len(d)
                 layers == Printed("layer")
                 more == Printed("more")
                 inferred == Printed("inferred_num_classes")
             IN  /\ Printed("number_of_layers") =
                        << Line("number_of_layers", <<>>, <<>>, n, <<>>) >>
                 /\ Len(layers) = Min(n, 10)
                 /\ \A i \in 1..Len(layers) :
                        layers[i].key = d[i].key /\ layers[i].shape = d[i].shape
                 /\ n > 10 <=> more # <<>>
                 /\ n > 10 => Len(more) = 1 /\ more[1].n = n - 10
                 /\ Len(inferred) <= 1
                 /\ inferred # <<>> <=> HeadsPresent(d) # {}
                 /\ HeadsPresent(d) # {} =>
                        /\ inferred[1].key = HeadKeys[FirstHeadPresent(d)]
                        /\ inferred[1].n = DictShape(d, inferred[1].key)[1]

C9_Witness ==
    /\ Inspecting /\ pc = "done" /\ ckpt.kind = "dict"
    /\ Len(ckpt.entries) > 10
    /\ ckpt.entries[Len(ckpt.entries) - 1].key = <<"head", "weight">>
    /\ ckpt.entries[Len(ckpt.entries)].key = <<"fc", "weight">>
    /\ Printed("inferred_num_classes") # <<>>

-----------------------------------------------------------------------------
(* C10 *)

MlpKeySet == { MlpKeys[i] : i \in 1..Len(MlpKeys) }

\* The mapping is exactly the state of a perceptron i -> 256 -> 128 -> n.
IsFixedTopology(sd, i, n) ==
    /\ DictKeys(sd) = MlpKeySet
    /\ DictShape(sd, <<"mlp", "0", "weight">>) = <<256, i>>
    /\ DictShape(sd, <<"mlp", "0", "bias">>) = <<256>>
    /\ DictShape(sd, <<"mlp", "3", "weight">>) = <<128, 256>>
    /\ DictShape(sd, <<"mlp", "3", "bias">>) = <<128>>
    /\ DictShape(sd, <<"mlp", "6", "weight">>) = <<n, 128>>
    /\ DictShape(sd, <<"mlp", "6", "bias">>) = <<n>>

\* A mapping get_model must refuse: a key with a prefix, no first weight, or
\* a hidden width other than 256 / 128.
Unfit(sd) ==
    \/ \E k \in DictKeys(sd) : k \notin MlpKeySet
    \/ ~DictHas(sd, <<"mlp", "0", "weight">>)
    \/ \E k \in DictKeys(sd) :
         \/ k \in {<<"mlp", "0", "weight">>, <<"mlp", "0", "bias">>}
              /\ DictShape(sd, k)[1] # 256
         \/ k = <<"mlp", "3", "weight">> /\ DictShape(sd, k) # <<128, 256>>
         \/ k = <<"mlp", "3", "bias">> /\ DictShape(sd, k) # <<128>>
         \/ k = <<"mlp", "6", "weight">> /\ DictShape(sd, k)[2] # 128

\* C10: when get_model returns a model rebuilt from a mapping, the mapping's
\* keys and shapes are exactly those of the perceptron that was built; a
\* mapping with other hidden widths, without mlp.0.weight or with prefixed
\* keys makes get_model raise, and no output file is written.
C10_StrictReconstruction ==
    Exporting /\ ckpt.kind = "dict" =>
        /\ Returned =>
             /\ state_dict = Some(ckpt)
             /\ model[1].cls = "MLPHead"
             /\ IsFixedTopology(ckpt.entries,
                                model[1].entries[1].shape[2],
                                model[1].entries[5].shape[1])
             /\ [i \in 1..6 |-> DictShape(ckpt.entries, MlpKeys[i])]
                    = [i \in 1..6 |-> model[1].entries[i].shape]
        /\ Unfit(ckpt.entries) =>
             /\ ~Returned
             /\ out_file = None
             /\ exit_code # None => pc = "raised" /\ raised # None

C10_Witness ==
    /\ Exporting /\ ckpt.kind = "dict" /\ pc = "done"
    /\ out_file # None
    /\ ckpt.entries[1].key = <<"mlp", "6", "bias">>

C10_WitnessRefused ==
    /\ Exporting /\ ckpt.kind = "dict" /\ pc = "raised"
    /\ Len(ckpt.entries) = 6
    /\ ckpt.entries[1].key = <<"module", "mlp", "0", "weight">>

====
